---------------------------- MODULE Spec2Model ----------------------------
(***************************************************************************)
(* Kobbelt's exact-accumulation dot product (src/kobbelt.hpp) as a state   *)
(* machine: the genus classifier, the two tableInsert overloads, and       *)
(* kobbeltDotProd with its insertion loop, its cancellation sweep and its  *)
(* final reduction.                                                        *)
(*                                                                         *)
(* The floating type fptype is a binary IEEE format reduced to MantBits    *)
(* fraction bits and ExpBits exponent bits.  A floating value is its bit   *)
(* pattern (sign, exponent field, fraction), so that classification,       *)
(* negation and rounding are computed on the representation.               *)
(***************************************************************************)
EXTENDS Integers, Sequences, FiniteSets, TLC

\* Width of the reduced floating format.
MantBits == 2
ExpBits == 3
\* Largest number of entries of a table handed to tableInsert or to the sweep.
MaxEntries == 2
\* Largest vector length of a kobbeltDotProd call.
MaxLen == 2

RECURSIVE Pow2(_)
Pow2(n) == IF n <= 0 THEN 1 ELSE 2 * Pow2(n - 1)

MantSize == Pow2(MantBits)
ExpSize == Pow2(ExpBits)
SignMask == MantSize * ExpSize
ExpMax == ExpSize - 1
Bias == ExpSize \div 2 - 1

AllBits == 0 .. (2 * SignMask - 1)

\* fpconvert<fptype>: the bit fields of a floating value.
gfFPStruct(val) ==
  [sign |-> val \div SignMask,
   exponent |-> (val \div MantSize) % ExpSize,
   mantissa |-> val % MantSize]

signbit(val) == val >= SignMask

fpNeg(val) == IF signbit(val) THEN val - SignMask ELSE val + SignMask

IsNaN(val) == gfFPStruct(val).exponent = ExpMax /\ gfFPStruct(val).mantissa # 0
IsInf(val) == gfFPStruct(val).exponent = ExpMax /\ gfFPStruct(val).mantissa = 0
IsFinite(val) == gfFPStruct(val).exponent < ExpMax
IsZero(val) == gfFPStruct(val).exponent = 0 /\ gfFPStruct(val).mantissa = 0

PosZero == 0
NegZero == SignMask
PosInf == ExpMax * MantSize
QNaN == ExpMax * MantSize + MantSize \div 2

FiniteNonZero == {v \in AllBits : IsFinite(v) /\ ~IsZero(v)}

\* The exact value of a finite pattern, in units of the smallest denormal.
Magnitude(val) ==
  LET s == gfFPStruct(val)
  IN IF s.exponent = 0 THEN s.mantissa
     ELSE (MantSize + s.mantissa) * Pow2(s.exponent - 1)

ToInt(val) == IF signbit(val) THEN 0 - Magnitude(val) ELSE Magnitude(val)

MaxFinite == (2 * MantSize - 1) * Pow2(ExpMax - 2)

\* The exponent field a magnitude of at least 2*MantSize units falls into.
RECURSIVE ExpOf(_, _)
ExpOf(mag, e) == IF mag < MantSize * Pow2(e) THEN e ELSE ExpOf(mag, e + 1)

\* Round to nearest, ties to even, of twice-the-value n2 / 2 units: the
\* rounding every floating operation of the program applies to its exact
\* result.  n2 is the exact result doubled, so that halving is covered.
RoundHalf(n2, negzero) ==
  LET neg == n2 < 0
      m2 == IF neg THEN 0 - n2 ELSE n2
      sgn == IF neg THEN SignMask ELSE 0
  IN IF m2 = 0 THEN (IF negzero THEN NegZero ELSE PosZero)
     ELSE LET e == IF m2 < 4 * MantSize THEN 1 ELSE ExpOf(m2 \div 2, 1)
              q2 == 2 * Pow2(e - 1)
              sig0 == m2 \div q2
              rem == m2 % q2
              up == (2 * rem > q2) \/ (2 * rem = q2 /\ sig0 % 2 = 1)
              sig == IF up THEN sig0 + 1 ELSE sig0
              e1 == IF sig >= 2 * MantSize THEN e + 1 ELSE e
              sig1 == IF sig >= 2 * MantSize THEN MantSize ELSE sig
          IN IF e1 >= ExpMax THEN sgn + PosInf
             ELSE IF sig1 < MantSize THEN sgn + sig1
             ELSE sgn + e1 * MantSize + (sig1 - MantSize)

\* fptype operator+ (value += table.at(genus), dotProd += ...).
fpAdd(a, b) ==
  IF IsNaN(a) \/ IsNaN(b) THEN QNaN
  ELSE IF IsInf(a) /\ IsInf(b) THEN (IF a = b THEN a ELSE QNaN)
  ELSE IF IsInf(a) THEN a
  ELSE IF IsInf(b) THEN b
  ELSE RoundHalf(2 * (ToInt(a) + ToInt(b)), signbit(a) /\ signbit(b))

\* prevVal /= 2.
fpHalf(a) ==
  IF IsNaN(a) THEN QNaN
  ELSE IF IsInf(a) THEN a
  ELSE RoundHalf(ToInt(a), signbit(a))

\* prevVal * 2.
fpDouble(a) ==
  IF IsNaN(a) THEN QNaN
  ELSE IF IsInf(a) THEN a
  ELSE RoundHalf(4 * ToInt(a), signbit(a))


\* One, in units of the smallest denormal.
OneUnits == MantSize * Pow2(Bias - 1)

\* The floating value of n/4 (n quarters).
fpQuarters(n) == RoundHalf((2 * n * OneUnits) \div 4, FALSE)

\* twoProd (accurate_math.hpp): hi is the rounded product and hi + lo the
\* exact one.
twoProd(a, b) ==
  LET q == (ToInt(a) * ToInt(b)) \div OneUnits
      hi == RoundHalf(2 * q, FALSE)
      lo == RoundHalf(2 * (q - ToInt(hi)), FALSE)
  IN <<hi, lo>>

-----------------------------------------------------------------------------
\* The genus classifier.

fpGenusSigned(val) ==
  (val \div MantSize) * 2 + (gfFPStruct(val).mantissa % 2)

fpGenus(val) ==
  gfFPStruct(val).exponent * 2 + (gfFPStruct(val).mantissa % 2)

\* genus ^ 1
XorOne(g) == IF g % 2 = 0 THEN g + 1 ELSE g - 1

\* x & ~1
ClearLow(x) == x - (x % 2)

-----------------------------------------------------------------------------
\* std::map<int, fptype>: a function from the keys present to their values.

EmptyTable == [g \in {} |-> 0]

Erase(table, g) == [k \in DOMAIN table \ {g} |-> table[k]]

\* map::insert does not overwrite a key that is present.
MapInsert(table, g, v) ==
  [k \in DOMAIN table \cup {g} |-> IF k \in DOMAIN table THEN table[k] ELSE v]

MaxKey(table) == CHOOSE k \in DOMAIN table : \A j \in DOMAIN table : j <= k
MinKey(table) == CHOOSE k \in DOMAIN table : \A j \in DOMAIN table : k <= j
PrevKey(table, g) ==
  LET below == {k \in DOMAIN table : k < g}
  IN CHOOSE k \in below : \A j \in below : j <= k

\* Iterators: the key of the node referred to and whether the node is still
\* an element of the caller's table ("ok"), was erased from it ("erased"),
\* belonged to a by-value copy that has been destroyed ("dangling"), is the
\* past-the-end position ("end"), or was produced by an undefined operation
\* ("garbage").
NoItr == [k |-> -1, st |-> "none"]
EndItr == [k |-> -1, st |-> "end"]
Itr(g) == [k |-> g, st |-> "ok"]
find(table, g) == IF g \in DOMAIN table THEN Itr(g) ELSE EndItr
IsValid(it, table) == it.st = "ok" /\ it.k \in DOMAIN table

\* The exact sum of the values stored in a table of finite values.
RECURSIVE SumKeys(_, _)
SumKeys(table, keys) ==
  IF keys = {} THEN 0
  ELSE LET k == CHOOSE x \in keys : TRUE
       IN ToInt(table[k]) + SumKeys(table, keys \ {k})

TableSum(table) == SumKeys(table, DOMAIN table)

\* No two entries of paired genus have opposite signs.
NoConflict(table) ==
  \A g \in DOMAIN table :
     XorOne(g) \in DOMAIN table =>
        signbit(table[g]) = signbit(table[XorOne(g)])

KeysAreGenus(table) == \A g \in DOMAIN table : fpGenus(table[g]) = g

\* The tables of at most n finite non-zero entries, each filed under its
\* genus, that satisfy the Merge-on-Insert invariant.
RECURSIVE TablesUpTo(_)
TablesUpTo(n) ==
  IF n = 0 THEN {EmptyTable}
  ELSE LET T == TablesUpTo(n - 1)
       IN T \cup
          {MapInsert(t, fpGenus(v), v) :
             <<t, v>> \in {tv \in T \X FiniteNonZero :
                /\ \A k \in DOMAIN tv[1] : k < fpGenus(tv[2])
                /\ NoConflict(MapInsert(tv[1], fpGenus(tv[2]), tv[2]))}}

-----------------------------------------------------------------------------
VARIABLES
  pc,         \* position of the running call
  retpc,      \* where the outermost tableInsert call returns to
  len,        \* kobbeltDotProd's len
  vec1,       \* kobbeltDotProd's vec1
  vec2,       \* kobbeltDotProd's vec2
  i,          \* index of the insertion loop
  prod,       \* the two components of the current product
  hasTable,   \* whether the table of the caller has been constructed
  fpTable,    \* the table of the caller (kobbeltDotProd's fpTable)
  callTable,  \* the caller's table when tableInsert(value, table) was called
  argValue,   \* the value tableInsert(value, table) was called with
  stack,      \* the frames of the running three-argument tableInsert calls
  ret,        \* the iterator the last tableInsert call returned
  itr,        \* the sweep's itr
  prevPos,    \* the sweep's prevPos
  erasePos,   \* the sweep's erasePos
  prevVal,    \* the sweep's prevVal
  curVal,     \* the sweep's curVal
  prevGenus,  \* the sweep's prevGenus
  curGenus,   \* the sweep's curGenus
  halvings,   \* executions of prevVal /= 2 in the current opposite-sign step
  sweepTable, \* the table when the sweep started
  result      \* the value kobbeltDotProd returned, NoResult before it returns

vars == <<pc, retpc, len, vec1, vec2, i, prod, hasTable, fpTable, callTable,
          argValue, stack, ret, itr, prevPos, erasePos, prevVal, curVal,
          prevGenus, curGenus, halvings, sweepTable, result>>

progVars == <<len, vec1, vec2, i, prod, hasTable>>
sweepVars == <<itr, prevPos, erasePos, prevVal, curVal, prevGenus, curGenus,
               halvings, sweepTable, result>>

\* The vector elements of the calls explored: 8, 3, 1.25, -1 and 1, 1.25, -1.
Vec1Vals == {fpQuarters(32), fpQuarters(12), fpQuarters(5), fpNeg(fpQuarters(4))}
Vec2Vals == {fpQuarters(4), fpQuarters(5), fpNeg(fpQuarters(4))}

\* No value has been returned.
NoResult == 0 - 1

InitLocals ==
  /\ retpc = "none"
  /\ i = 0
  /\ prod = <<>>
  /\ stack = <<>>
  /\ ret = NoItr
  /\ itr = NoItr
  /\ prevPos = NoItr
  /\ erasePos = NoItr
  /\ prevVal = PosZero
  /\ curVal = PosZero
  /\ prevGenus = 0
  /\ curGenus = 0
  /\ halvings = 0
  /\ result = NoResult
  /\ callTable = EmptyTable

\* A call kobbeltDotProd(vec1, vec2, len).
Init ==
  /\ pc = "entry"
  /\ len \in 0 .. MaxLen
  /\ vec1 \in [1 .. MaxLen -> Vec1Vals]
  /\ vec2 \in [1 .. MaxLen -> Vec2Vals]
  /\ hasTable = FALSE
  /\ fpTable = EmptyTable
  /\ sweepTable = EmptyTable
  /\ argValue = PosZero
  /\ InitLocals

\* A call tableInsert(value, table) on a table that satisfies the
\* Merge-on-Insert invariant.
InitInsert ==
  /\ pc = "call"
  /\ len = 0
  /\ vec1 = <<>>
  /\ vec2 = <<>>
  /\ hasTable = TRUE
  /\ fpTable \in TablesUpTo(MaxEntries)
  /\ sweepTable = EmptyTable
  /\ argValue \in FiniteNonZero
  /\ InitLocals

\* kobbeltDotProd at the start of its sweep (line 84), on a non-empty table
\* that satisfies the Merge-on-Insert invariant.
InitSweep ==
  /\ pc = "sweep"
  /\ len = 1
  /\ vec1 = <<>>
  /\ vec2 = <<>>
  /\ hasTable = TRUE
  /\ fpTable \in TablesUpTo(MaxEntries + 1) \ {EmptyTable}
  /\ sweepTable = fpTable
  /\ argValue = PosZero
  /\ InitLocals

-----------------------------------------------------------------------------
\* tableInsert(value, table, hint): table is passed by value, so each call
\* works on a copy of its own.

Frame(value, table, hint) ==
  [value |-> value, table |-> table, hint |-> hint,
   genus |-> fpGenus(value), otherGenus |-> XorOne(fpGenus(value))]

Top == stack[Len(stack)]

\* The frame after value += table.at(g); table.erase(g).
Merged(f, g) ==
  [f EXCEPT !.value = fpAdd(f.value, f.table[g]), !.table = Erase(f.table, g)]

\* The callee of the recursive call the frame makes.
Callee(f) == Frame(f.value, f.table, f.hint)

SameGenusCond(f) == f.genus \in DOMAIN f.table

PairedGenusCondNoSign(f) ==
  /\ ~SameGenusCond(f)
  /\ f.otherGenus \in DOMAIN f.table

PairedGenusCondNever(f) == FALSE

PairedGenusCond(f) ==
  /\ ~SameGenusCond(f)
  /\ f.otherGenus \in DOMAIN f.table
  /\ signbit(f.value) # signbit(f.table[f.otherGenus])

\* tableInsert(value, table): the two-argument overload, lines 55-61.
Call2(value, rp) ==
  /\ argValue' = value
  /\ callTable' = fpTable
  /\ stack' = <<Frame(value, fpTable, find(fpTable, fpGenus(value)))>>
  /\ retpc' = rp
  /\ pc' = "insert"

\* A direct call of the three-argument overload, lines 105 and 111.
Call3(value, hint, rp) ==
  /\ stack' = <<Frame(value, fpTable, hint)>>
  /\ retpc' = rp
  /\ pc' = "insert"

\* Lines 33-36.
InsertSameGenus ==
  /\ pc = "insert"
  /\ SameGenusCond(Top)
  /\ LET f == Merged(Top, Top.genus)
     IN stack' = Append([stack EXCEPT ![Len(stack)] = f], Callee(f))
  /\ UNCHANGED <<pc, retpc, fpTable, callTable, argValue, ret>>
  /\ UNCHANGED progVars
  /\ UNCHANGED sweepVars

\* Lines 37-48.
InsertPairedGenus ==
  /\ pc = "insert"
  /\ PairedGenusCond(Top)
  /\ LET f == Merged(Top, Top.otherGenus)
     IN stack' = Append([stack EXCEPT ![Len(stack)] = f], Callee(f))
  /\ UNCHANGED <<pc, retpc, fpTable, callTable, argValue, ret>>
  /\ UNCHANGED progVars
  /\ UNCHANGED sweepVars

\* Lines 49-52.  hint is an iterator of another container than table (of the
\* caller's table, or of a copy that no longer exists), which map::insert
\* does not allow.  Two outcomes: the hint is taken as advice only and the
\* element is inserted where it belongs (this action), or the insertion
\* follows the foreign node's links and does not return (InsertBaseHang).
InsertBase ==
  /\ pc = "insert"
  /\ ~SameGenusCond(Top)
  /\ ~PairedGenusCond(Top)
  /\ stack' = [stack EXCEPT ![Len(stack)].table =
                  MapInsert(Top.table, Top.genus, Top.value)]
  /\ ret' = [k |-> Top.genus, st |-> "dangling"]
  /\ pc' = "unwind"
  /\ UNCHANGED <<retpc, fpTable, callTable, argValue>>
  /\ UNCHANGED progVars
  /\ UNCHANGED sweepVars

InsertBaseHang ==
  /\ pc = "insert"
  /\ ~SameGenusCond(Top)
  /\ ~PairedGenusCond(Top)
  /\ pc' = "hung"
  /\ UNCHANGED <<retpc, fpTable, callTable, argValue, stack, ret>>
  /\ UNCHANGED progVars
  /\ UNCHANGED sweepVars

\* return: the frame and its copy of the table are destroyed.
InsertReturn ==
  /\ pc = "unwind"
  /\ stack' = SubSeq(stack, 1, Len(stack) - 1)
  /\ pc' = IF Len(stack) = 1 THEN retpc ELSE "unwind"
  /\ UNCHANGED <<retpc, fpTable, callTable, argValue, ret>>
  /\ UNCHANGED progVars
  /\ UNCHANGED sweepVars

\* The caller of tableInsert(value, table) in InitInsert.
CallInsert ==
  /\ pc = "call"
  /\ Call2(argValue, "done")
  /\ UNCHANGED <<fpTable, ret>>
  /\ UNCHANGED progVars
  /\ UNCHANGED sweepVars

-----------------------------------------------------------------------------
\* kobbeltDotProd, lines 63-77: the entry and the insertion loop.

insertVars == <<retpc, callTable, argValue, stack, ret>>

LenIsNegative(n) == n < 0

LenIsZero(n) == n = 0

\* Line 66.
ReturnZero ==
  /\ pc = "entry"
  /\ LenIsZero(len)
  /\ result' = PosZero
  /\ pc' = "done"
  /\ UNCHANGED <<fpTable, itr, prevPos, erasePos, prevVal, curVal, prevGenus,
                 curGenus, halvings, sweepTable>>
  /\ UNCHANGED progVars
  /\ UNCHANGED insertVars

\* Lines 67-69: std::map<int, fptype> fpTable; i = 0.
Construct ==
  /\ pc = "entry"
  /\ ~LenIsZero(len)
  /\ hasTable' = TRUE
  /\ fpTable' = EmptyTable
  /\ i' = 0
  /\ pc' = "for"
  /\ UNCHANGED <<len, vec1, vec2, prod>>
  /\ UNCHANGED insertVars
  /\ UNCHANGED sweepVars

\* Lines 69 and 74.
ForBody ==
  /\ pc = "for"
  /\ i < len
  /\ prod' = twoProd(vec1[i + 1], vec2[i + 1])
  /\ pc' = "ins0"
  /\ UNCHANGED <<len, vec1, vec2, i, hasTable, fpTable>>
  /\ UNCHANGED insertVars
  /\ UNCHANGED sweepVars

\* Line 75.
InsertFirst ==
  /\ pc = "ins0"
  /\ Call2(prod[1], "ins1")
  /\ UNCHANGED <<fpTable, ret>>
  /\ UNCHANGED progVars
  /\ UNCHANGED sweepVars

\* Line 76.
InsertSecond ==
  /\ pc = "ins1"
  /\ Call2(prod[2], "incr")
  /\ UNCHANGED <<fpTable, ret>>
  /\ UNCHANGED progVars
  /\ UNCHANGED sweepVars

\* Line 69: i++.
ForIncr ==
  /\ pc = "incr"
  /\ i' = i + 1
  /\ pc' = "for"
  /\ UNCHANGED <<len, vec1, vec2, prod, hasTable, fpTable>>
  /\ UNCHANGED insertVars
  /\ UNCHANGED sweepVars

\* Line 69: the loop ends and the sweep begins.
ForExit ==
  /\ pc = "for"
  /\ ~(i < len)
  /\ sweepTable' = fpTable
  /\ pc' = "sweep"
  /\ UNCHANGED <<fpTable, itr, prevPos, erasePos, prevVal, curVal, prevGenus,
                 curGenus, halvings, result>>
  /\ UNCHANGED progVars
  /\ UNCHANGED insertVars

-----------------------------------------------------------------------------
\* kobbeltDotProd, lines 84-116: the sweep.

\* Lines 84-93 on a non-empty table.
SweepStart ==
  /\ pc = "sweep"
  /\ DOMAIN fpTable # {}
  /\ itr' = Itr(MaxKey(fpTable))
  /\ prevPos' = Itr(MaxKey(fpTable))
  /\ prevVal' = fpTable[MaxKey(fpTable)]
  /\ pc' = "loop"
  /\ UNCHANGED <<fpTable, erasePos, curVal, prevGenus, curGenus, halvings,
                 sweepTable, result>>
  /\ UNCHANGED progVars
  /\ UNCHANGED insertVars

\* Line 91 on an empty table decrements begin().  Two outcomes: the
\* decrement faults (SweepStartCrash), or it yields an iterator to no element
\* whose dereference reads an arbitrary value (SweepStartGarbage).
SweepStartCrash ==
  /\ pc = "sweep"
  /\ DOMAIN fpTable = {}
  /\ pc' = "crashed"
  /\ UNCHANGED <<fpTable>>
  /\ UNCHANGED progVars
  /\ UNCHANGED insertVars
  /\ UNCHANGED sweepVars

SweepStartGarbage ==
  /\ pc = "sweep"
  /\ DOMAIN fpTable = {}
  /\ itr' = [k |-> -1, st |-> "garbage"]
  /\ prevPos' = [k |-> -1, st |-> "garbage"]
  /\ prevVal' \in AllBits
  /\ pc' = "loop"
  /\ UNCHANGED <<fpTable, erasePos, curVal, prevGenus, curGenus, halvings,
                 sweepTable, result>>
  /\ UNCHANGED progVars
  /\ UNCHANGED insertVars

\* Lines 95-97 with itr moved to key k.
Visit(k) ==
  /\ curVal' = fpTable[k]
  /\ fpTable' = Erase(fpTable, k)
  /\ itr' = [k |-> k, st |-> "erased"]
  /\ pc' = "branch"
  /\ UNCHANGED <<prevPos, erasePos, prevVal, prevGenus, curGenus, halvings,
                 sweepTable, result>>
  /\ UNCHANGED progVars
  /\ UNCHANGED insertVars

\* Line 94: itr == fpTable.begin().
LoopExit ==
  /\ pc = "loop"
  /\ IsValid(itr, fpTable)
  /\ itr.k = MinKey(fpTable)
  /\ pc' = "sum"
  /\ UNCHANGED <<fpTable>>
  /\ UNCHANGED progVars
  /\ UNCHANGED insertVars
  /\ UNCHANGED sweepVars

\* Lines 94-97.
LoopStep ==
  /\ pc = "loop"
  /\ IsValid(itr, fpTable)
  /\ itr.k # MinKey(fpTable)
  /\ Visit(PrevKey(fpTable, itr.k))

\* Lines 94-97 when itr does not refer to an element of fpTable (it was
\* erased at line 97 or 109, or it came from a destroyed copy): it differs
\* from begin() and is decremented.  Two outcomes: the decrement follows the
\* freed node's links to some element of fpTable (LoopStepGarbage), or it
\* faults (LoopCrash).
LoopStepGarbage ==
  /\ pc = "loop"
  /\ ~IsValid(itr, fpTable)
  /\ \E k \in DOMAIN fpTable : Visit(k)

LoopCrash ==
  /\ pc = "loop"
  /\ ~IsValid(itr, fpTable)
  /\ pc' = "crashed"
  /\ UNCHANGED <<fpTable>>
  /\ UNCHANGED progVars
  /\ UNCHANGED insertVars
  /\ UNCHANGED sweepVars

\* Lines 98 and 112-115.
SameSign ==
  /\ pc = "branch"
  /\ signbit(prevVal) = signbit(curVal)
  /\ prevPos' = itr
  /\ prevVal' = curVal
  /\ pc' = "loop"
  /\ UNCHANGED <<fpTable, itr, erasePos, curVal, prevGenus, curGenus,
                 halvings, sweepTable, result>>
  /\ UNCHANGED progVars
  /\ UNCHANGED insertVars

\* Lines 98-103.
OppSign ==
  /\ pc = "branch"
  /\ signbit(prevVal) # signbit(curVal)
  /\ curGenus' = fpGenus(curVal)
  /\ prevVal' = fpHalf(prevVal)
  /\ prevGenus' = fpGenus(fpHalf(prevVal))
  /\ erasePos' = prevPos
  /\ halvings' = 1
  /\ pc' = "inner"
  /\ UNCHANGED <<fpTable, itr, prevPos, curVal, sweepTable, result>>
  /\ UNCHANGED progVars
  /\ UNCHANGED insertVars

InnerCond == ClearLow(prevGenus) >= ClearLow(curGenus)

\* Lines 104-105: the call.
InnerCall ==
  /\ pc = "inner"
  /\ InnerCond
  /\ Call3(prevVal, prevPos, "inner_ret")
  /\ UNCHANGED <<fpTable, callTable, argValue, ret>>
  /\ UNCHANGED progVars
  /\ UNCHANGED sweepVars

\* Lines 105-107: the call's result and the rest of the body.
InnerReturn ==
  /\ pc = "inner_ret"
  /\ prevPos' = ret
  /\ prevVal' = fpHalf(prevVal)
  /\ prevGenus' = prevGenus - 2
  /\ halvings' = halvings + 1
  /\ pc' = "inner"
  /\ UNCHANGED <<fpTable, itr, erasePos, curVal, curGenus, sweepTable,
                 result>>
  /\ UNCHANGED progVars
  /\ UNCHANGED insertVars

\* Line 104: the condition fails.
InnerExit ==
  /\ pc = "inner"
  /\ ~InnerCond
  /\ pc' = "erase"
  /\ UNCHANGED <<fpTable>>
  /\ UNCHANGED progVars
  /\ UNCHANGED insertVars
  /\ UNCHANGED sweepVars

\* Lines 109-110 with erasePos an element of fpTable.  prevPos, when it is
\* the same iterator, no longer refers to an element.
EraseOk ==
  /\ pc = "erase"
  /\ IsValid(erasePos, fpTable)
  /\ fpTable' = Erase(fpTable, erasePos.k)
  /\ prevPos' = IF prevPos = erasePos
                THEN [k |-> prevPos.k, st |-> "erased"] ELSE prevPos
  /\ itr' = prevPos'
  /\ pc' = "final"
  /\ UNCHANGED <<erasePos, prevVal, curVal, prevGenus, curGenus, halvings,
                 sweepTable, result>>
  /\ UNCHANGED progVars
  /\ UNCHANGED insertVars

\* Lines 109-110 with erasePos already erased (it was set from itr at line
\* 113, after line 97 erased it).  Two outcomes: the second erase faults
\* (EraseCrash), or it leaves the elements of fpTable as they are
\* (EraseGarbage).
EraseCrash ==
  /\ pc = "erase"
  /\ ~IsValid(erasePos, fpTable)
  /\ pc' = "crashed"
  /\ UNCHANGED <<fpTable>>
  /\ UNCHANGED progVars
  /\ UNCHANGED insertVars
  /\ UNCHANGED sweepVars

EraseGarbage ==
  /\ pc = "erase"
  /\ ~IsValid(erasePos, fpTable)
  /\ itr' = prevPos
  /\ pc' = "final"
  /\ UNCHANGED <<fpTable, prevPos, erasePos, prevVal, curVal, prevGenus,
                 curGenus, halvings, sweepTable, result>>
  /\ UNCHANGED progVars
  /\ UNCHANGED insertVars

\* Line 111.
FinalCall ==
  /\ pc = "final"
  /\ Call3(fpAdd(curVal, fpDouble(prevVal)), prevPos, "loop")
  /\ UNCHANGED <<fpTable, callTable, argValue, ret>>
  /\ UNCHANGED progVars
  /\ UNCHANGED sweepVars

\* Lines 118-122: the sum of the values, from the lowest key up.
RECURSIVE SumUp(_, _, _)
SumUp(table, keys, acc) ==
  IF keys = {} THEN acc
  ELSE LET k == CHOOSE x \in keys : \A y \in keys : x <= y
       IN SumUp(table, keys \ {k}, fpAdd(acc, table[k]))

Reduce ==
  /\ pc = "sum"
  /\ result' = SumUp(fpTable, DOMAIN fpTable, PosZero)
  /\ pc' = "done"
  /\ UNCHANGED <<fpTable, itr, prevPos, erasePos, prevVal, curVal, prevGenus,
                 curGenus, halvings, sweepTable>>
  /\ UNCHANGED progVars
  /\ UNCHANGED insertVars

-----------------------------------------------------------------------------
\* tableInsert(value, table) called on a table satisfying the invariant.
NextInsert ==
  \/ CallInsert
  \/ InsertSameGenus
  \/ InsertPairedGenus
  \/ InsertBase
  \/ InsertBaseHang
  \/ InsertReturn

InsertSpec == InitInsert /\ [][NextInsert]_vars

\* The sweep and the reduction on a non-empty table satisfying the invariant.
NextSweep ==
  \/ SweepStart
  \/ LoopExit
  \/ LoopStep
  \/ LoopStepGarbage
  \/ LoopCrash
  \/ SameSign
  \/ OppSign
  \/ InnerCall
  \/ InnerReturn
  \/ InnerExit
  \/ EraseOk
  \/ EraseCrash
  \/ EraseGarbage
  \/ FinalCall
  \/ Reduce
  \/ InsertSameGenus
  \/ InsertPairedGenus
  \/ InsertBase
  \/ InsertBaseHang
  \/ InsertReturn

SweepSpec == InitSweep /\ [][NextSweep]_vars

\* A call of kobbeltDotProd.  fpTable is empty whenever tableInsert copies
\* it, so the merge branches of tableInsert and the steps of the sweep that
\* need an element (SweepStart to Reduce) are enabled in no state a call
\* reaches; InsertSpec and SweepSpec take them.
Next ==
  \/ ReturnZero
  \/ Construct
  \/ ForBody
  \/ InsertFirst
  \/ InsertSecond
  \/ ForIncr
  \/ ForExit
  \/ InsertBase
  \/ InsertBaseHang
  \/ InsertReturn
  \/ SweepStartCrash
  \/ SweepStartGarbage
  \/ LoopCrash

Spec == Init /\ [][Next]_vars

\* The call has ended: it returned, or it faulted or hangs.
Ended == pc \in {"done", "crashed", "hung"}

-----------------------------------------------------------------------------
\* dotProd (src/dotprod.cpp): the naive sequential summation.
RECURSIVE naiveFrom(_, _, _, _, _)
naiveFrom(v1, v2, n, k, total) ==
  IF k > n THEN total
  ELSE naiveFrom(v1, v2, n, k + 1, fpAdd(total, twoProd(v1[k], v2[k])[1]))

dotProd(v1, v2, n) == naiveFrom(v1, v2, n, 1, PosZero)

-----------------------------------------------------------------------------
\* The claims.

\* C1 (InsertSpec): after an insertion, and at every step of it, the table
\* holds at most one entry per genus id (every entry is filed under the genus
\* of its value) and no two entries of paired genus ids have opposite signs.
\* This is stated of the caller's table and of the table of every running
\* tableInsert call, the one the new entry is inserted into included.
C1_NoConflictAfterInsert ==
  /\ KeysAreGenus(fpTable)
  /\ NoConflict(fpTable)
  /\ \A n \in 1 .. Len(stack) :
        KeysAreGenus(stack[n].table) /\ NoConflict(stack[n].table)

\* An insertion that merged an entry has put its value next to an entry of the
\* paired genus.
C1_Witness ==
  /\ pc = "unwind"
  /\ Len(stack) >= 2
  /\ Top.genus \in DOMAIN Top.table
  /\ Top.otherGenus \in DOMAIN Top.table
  /\ Top.table[Top.genus] = Top.value

\* C2 (InsertSpec): when tableInsert(value, table) has returned, the exact sum
\* of the values in the caller's table is the sum before the call plus value.
C2_CallerTableAccountsForValue ==
  pc = "done" =>
     TableSum(fpTable) = TableSum(callTable) + ToInt(argValue)

\* C3 (Spec): a call with len = 0 returns 0.0 at once: it is at its entry or
\* has returned 0.0, no table was constructed, no vector element was read,
\* and neither the insertion loop, the sweep nor the reduction was entered.
C3_ZeroLenReturnsZero ==
  len = 0 =>
     /\ pc \in {"entry", "done"}
     /\ pc = "done" => result = PosZero
     /\ pc = "entry" => result = NoResult
     /\ ~hasTable
     /\ prod = <<>>
     /\ i = 0
     /\ stack = <<>>
     /\ itr = NoItr

C3_Witness == len = 0 /\ pc = "done" /\ result = PosZero

\* C4 (Spec): when the sweep of a call with len >= 1 starts, the table is not
\* empty.
C4_TableNonEmptyAtSweep ==
  (pc = "sweep" /\ len >= 1) => DOMAIN fpTable # {}

\* C5 (Spec): the call on <<Big, 3>> and <<1, 1>>, where Big + 3 is not a
\* value of the floating type, ends by returning a result whose exact value
\* is Big + 3, and the naive summation returns Big.
BigVal == fpQuarters(4 * Pow2(MantBits + 1))
C5_RecoversSmallTerm ==
  (/\ len = 2
   /\ vec1 = <<BigVal, fpQuarters(12)>>
   /\ vec2 = <<fpQuarters(4), fpQuarters(4)>>
   /\ Ended)
  => /\ pc = "done"
     /\ ToInt(result) = ToInt(BigVal) + ToInt(fpQuarters(12))
     /\ dotProd(vec1, vec2, 2) = BigVal

\* No two entries adjacent in genus order have opposite signs.
NoAdjacentOpposite(table) ==
  \A g \in DOMAIN table :
     g # MinKey(table) =>
        signbit(table[g]) = signbit(table[PrevKey(table, g)])

C7_GenusIgnoresSign ==
  /\ fpGenus(argValue) = fpGenus(fpNeg(argValue))
  /\ pc = "insert" => Top.genus = fpGenus(fpNeg(Top.value))

C7_Witness ==
  /\ pc = "insert"
  /\ Len(stack) = 1
  /\ signbit(argValue)
  /\ Top.value = argValue

MergeStep == pc = "insert" /\ Len(stack') = Len(stack) + 1
MergedKey == IF SameGenusCond(Top) THEN Top.genus ELSE Top.otherGenus
ExactSum == ToInt(Top.value) + ToInt(Top.table[MergedKey])
Abs(n) == IF n < 0 THEN 0 - n ELSE n

\* C10 as stated (InsertSpec): every addition of a merge branch is exact for
\* finite non-zero operands.
C10_MergeAdditionsExact ==
  [][(MergeStep /\ Top.value \in FiniteNonZero) =>
        /\ IsFinite(stack'[Len(stack)].value)
        /\ ToInt(stack'[Len(stack)].value) = ExactSum]_vars

\* C10 as amended (InsertSpec): every addition of a merge branch with finite
\* operands is exact unless the exact sum is larger in magnitude than the
\* largest finite value, and then the sum is an infinity.
C10_MergeAdditionsExactOrOverflow ==
  [][(MergeStep /\ IsFinite(Top.value)) =>
        IF Abs(ExactSum) <= MaxFinite
        THEN /\ IsFinite(stack'[Len(stack)].value)
             /\ ToInt(stack'[Len(stack)].value) = ExactSum
        ELSE IsInf(stack'[Len(stack)].value)]_vars

\* Two additions were made in one insertion, the second on a sum.
C10_Witness ==
  /\ pc = "insert"
  /\ Len(stack) = 3
  /\ IsFinite(Top.value)

-----------------------------------------------------------------------------
\* The number of entries of a table.
Entries(table) == Cardinality(DOMAIN table)

\* The recursion of tableInsert is bounded: the n-th running call works on a
\* table that has lost n - 1 of the entries the table had at the time of the
\* call, so at most Entries(callTable) + 1 calls are running.
C11_DepthBound ==
  /\ Len(stack) <= Entries(callTable) + 1
  /\ pc = "insert" => Entries(Top.table) = Entries(callTable) - (Len(stack) - 1)

\* The running call is the one that took the base case (lines 49-52) and has
\* not returned yet: its table has the entry the base case inserted.
InBaseCase ==
  /\ pc = "unwind"
  /\ Entries(Top.table) = Entries(callTable) - (Len(stack) - 1) + 1

\* C11: every call of tableInsert terminates.  Each recursive call is made
\* only after one entry was removed from the table the call works on, so at
\* most Entries(callTable) + 1 calls are running, and the call ends in the
\* base case, which inserts the value at a genus that is free and has no
\* paired entry of opposite sign: no call is ever stuck in a step that does
\* not return, and the last call made files the value under its genus.
C11_InsertTerminates ==
  /\ C11_DepthBound
  /\ pc # "hung"
  /\ InBaseCase =>
        /\ Top.genus \in DOMAIN Top.table
        /\ Top.table[Top.genus] = Top.value
        /\ NoConflict(Top.table)

\* The same without the step that does not return: the bound on the depth
\* and the base case.
C11_BoundAndBaseCase ==
  /\ C11_DepthBound
  /\ InBaseCase =>
        /\ Top.genus \in DOMAIN Top.table
        /\ Top.table[Top.genus] = Top.value
        /\ NoConflict(Top.table)

C11_BaseCaseAtFullDepth ==
  InBaseCase /\ Len(stack) = MaxEntries + 1

=============================================================================
